---- MODULE Spec2Model ----
EXTENDS Integers, Sequences, FiniteSets, TLC

(***************************************************************************)
(* rlmlm_exporter: the scrape orchestrator (RlmlmCollector), the usage     *)
(* probe (LmstatCollector) and the feature-expiration probe                *)
(* (lmstatFeatureExpCollector) in its two builds, the delimited-table one  *)
(* and the line-scanning one.                                              *)
(*                                                                         *)
(* Text is a sequence of one-character strings, so that trimming,          *)
(* splitting and concatenation are computed and not assumed.  The output   *)
(* of the external tool is a sequence of lines, each line the sequence of  *)
(* its delimiter-separated fields (<<>> is a blank line).                  *)
(***************************************************************************)

\* ------------------------------------------------------------------ text

WhiteSpace == {" "}

DigitSeq == <<"0", "1", "2", "3", "4", "5", "6", "7", "8", "9">>

DigitChars == {DigitSeq[i] : i \in 1..Len(DigitSeq)}

RECURSIVE TrimLeft(_)
TrimLeft(s) ==
    IF s # <<>> /\ Head(s) \in WhiteSpace THEN TrimLeft(Tail(s)) ELSE s

RECURSIVE TrimRight(_)
TrimRight(s) ==
    IF s # <<>> /\ s[Len(s)] \in WhiteSpace
    THEN TrimRight(SubSeq(s, 1, Len(s) - 1))
    ELSE s

\* strings.TrimSpace
TrimSpace(s) == TrimRight(TrimLeft(s))

\* strings.Split(s, sep) for a one-character separator: Split("", sep) is [""].
RECURSIVE Split(_, _)
Split(s, sep) ==
    IF \E i \in 1..Len(s) : s[i] = sep
    THEN LET i == CHOOSE k \in 1..Len(s) :
                      s[k] = sep /\ \A j \in 1..(k - 1) : s[j] # sep
         IN  <<SubSeq(s, 1, i - 1)>> \o Split(SubSeq(s, i + 1, Len(s)), sep)
    ELSE <<s>>

\* strings.Join(parts, "")
RECURSIVE JoinEmpty(_)
JoinEmpty(parts) ==
    IF parts = <<>> THEN <<>> ELSE Head(parts) \o JoinEmpty(Tail(parts))

\* strconv.Itoa for n >= 0
RECURSIVE Itoa(_)
Itoa(n) ==
    IF n < 10
    THEN <<DigitSeq[n + 1]>>
    ELSE Itoa(n \div 10) \o <<DigitSeq[(n % 10) + 1]>>

\* The elements of a sequence, as a set.
Range(s) == {s[i] : i \in 1..Len(s)}

\* ------------------------------------------------- the include/exclude lists

RECURSIVE nonEmptyTrimmed(_)
nonEmptyTrimmed(parts) ==
    IF parts = <<>> THEN <<>>
    ELSE LET trimmed == TrimSpace(Head(parts))
         IN  (IF trimmed # <<>> THEN <<trimmed>> ELSE <<>>)
                 \o nonEmptyTrimmed(Tail(parts))

splitCSVList(value) ==
    IF value = <<>> THEN <<>> ELSE nonEmptyTrimmed(Split(value, ","))

contains(slice, item) == \E i \in 1..Len(slice) : slice[i] = item

\* ------------------------------------------------------------ expiry dates

LowerSeq ==
    <<"a", "b", "c", "d", "e", "f", "g", "h", "i", "j", "k", "l", "m",
      "n", "o", "p", "q", "r", "s", "t", "u", "v", "w", "x", "y", "z">>

UpperSeq ==
    <<"A", "B", "C", "D", "E", "F", "G", "H", "I", "J", "K", "L", "M",
      "N", "O", "P", "Q", "R", "S", "T", "U", "V", "W", "X", "Y", "Z">>

LowerChars == Range(LowerSeq)

UpperChars == Range(UpperSeq)

LowerOf(c) ==
    IF c \in UpperChars
    THEN LowerSeq[CHOOSE i \in 1..Len(UpperSeq) : UpperSeq[i] = c]
    ELSE c

UpperOf(c) ==
    IF c \in LowerChars
    THEN UpperSeq[CHOOSE i \in 1..Len(LowerSeq) : LowerSeq[i] = c]
    ELSE c

\* strings.ToLower
ToLower(s) == [i \in 1..Len(s) |-> LowerOf(s[i])]

\* strings.Title: the first letter of every word is upper-cased; letters,
\* digits and the underscore do not separate words.
IsSeparator(c) == c \notin (LowerChars \cup UpperChars \cup DigitChars \cup {"_"})

Title(s) ==
    [i \in 1..Len(s) |->
        IF i = 1 \/ IsSeparator(s[i - 1]) THEN UpperOf(s[i]) ELSE s[i]]

\* strings.EqualFold
EqualFold(a, b) == ToLower(a) = ToLower(b)

permanentText == <<"p", "e", "r", "m", "a", "n", "e", "n", "t">>

noneText == <<"n", "o", "n", "e">>

\* time: the short month names, matched without regard to letter case.
shortMonthNames ==
    << <<"J", "a", "n">>, <<"F", "e", "b">>, <<"M", "a", "r">>,
       <<"A", "p", "r">>, <<"M", "a", "y">>, <<"J", "u", "n">>,
       <<"J", "u", "l">>, <<"A", "u", "g">>, <<"S", "e", "p">>,
       <<"O", "c", "t">>, <<"N", "o", "v">>, <<"D", "e", "c">> >>

DigitValue(c) == (CHOOSE i \in 1..Len(DigitSeq) : DigitSeq[i] = c) - 1

AllDigits(s) == \A i \in 1..Len(s) : s[i] \in DigitChars

RECURSIVE Atoi(_)
Atoi(s) ==
    IF s = <<>> THEN 0
    ELSE 10 * Atoi(SubSeq(s, 1, Len(s) - 1)) + DigitValue(s[Len(s)])

IsLeap(y) == (y % 4 = 0 /\ y % 100 # 0) \/ y % 400 = 0

daysIn(m, y) ==
    IF m = 2 THEN (IF IsLeap(y) THEN 29 ELSE 28)
    ELSE IF m \in {4, 6, 9, 11} THEN 30 ELSE 31

RECURSIVE DaysBeforeMonth(_, _)
DaysBeforeMonth(m, y) ==
    IF m = 1 THEN 0 ELSE DaysBeforeMonth(m - 1, y) + daysIn(m - 1, y)

\* Days from 0000-01-01 to the first day of year y.
DaysBeforeYear(y) ==
    IF y = 0 THEN 0
    ELSE 365 * y + ((y - 1) \div 4) - ((y - 1) \div 100) + ((y - 1) \div 400) + 1

\* Time.Unix() of midnight UTC of a date, counted in days: Unix() is
\* 86400 times this number, so the two have the same sign.
UnixDay(y, m, d) ==
    (DaysBeforeYear(y) + DaysBeforeMonth(m, y) + (d - 1)) - DaysBeforeYear(1970)

NoTime == [ok |-> FALSE, unix |-> 0]

\* time.Parse, after the layout's elements have been read off the value.
timeDate(dayText, monthText, yearText, rest) ==
    IF /\ Len(dayText) = 2 /\ AllDigits(dayText)
       /\ \E m \in 1..12 : ToLower(shortMonthNames[m]) = ToLower(monthText)
       /\ Len(yearText) = 4 /\ AllDigits(yearText)
       /\ rest = <<>>
    THEN LET m == CHOOSE k \in 1..12 :
                      ToLower(shortMonthNames[k]) = ToLower(monthText)
             y == Atoi(yearText)
             d == Atoi(dayText)
         IN  IF d >= 1 /\ d <= daysIn(m, y)
             THEN [ok |-> TRUE, unix |-> UnixDay(y, m, d)]
             ELSE NoTime
    ELSE NoTime

\* A blank of a layout matches any run of blanks of the value, an empty run
\* included; the value may not go on with another character.
cutspace(s) == TrimLeft(s)

\* time.Parse("02-Jan-2006", v)
parseDayMonthYear(v) ==
    IF Len(v) >= 7 /\ v[3] = "-" /\ v[7] = "-"
    THEN timeDate(SubSeq(v, 1, 2), SubSeq(v, 4, 6),
                  SubSeq(v, 8, IF Len(v) < 11 THEN Len(v) ELSE 11),
                  SubSeq(v, 12, Len(v)))
    ELSE NoTime

\* time.Parse("Jan 02, 2006", v)
parseMonthDayYear(v) ==
    IF Len(v) < 3 THEN NoTime
    ELSE LET afterMonth == SubSeq(v, 4, Len(v))
             atDay      == cutspace(afterMonth)
             afterDay   == SubSeq(atDay, 3, Len(atDay))
             afterComma == SubSeq(afterDay, 2, Len(afterDay))
             atYear     == cutspace(afterComma)
         IN  IF /\ (afterMonth = <<>> \/ Head(afterMonth) = " ")
                /\ Len(atDay) >= 2
                /\ afterDay # <<>> /\ Head(afterDay) = ","
                /\ (afterComma = <<>> \/ Head(afterComma) = " ")
             THEN timeDate(SubSeq(atDay, 1, 2), SubSeq(v, 1, 3),
                           SubSeq(atYear, 1, IF Len(atYear) < 4 THEN Len(atYear) ELSE 4),
                           SubSeq(atYear, 5, Len(atYear)))
             ELSE NoTime

\* math.Inf(1), and a finite float64 value.
Inf == [inf |-> TRUE, unix |-> 0]

Finite(n) == [inf |-> FALSE, unix |-> n]

padDay(day) == IF Len(day) = 1 THEN <<"0">> \o day ELSE day

padYear(year) == IF Len(year) = 1 THEN <<"0", "0", "0">> \o year ELSE year

\* (mutant) the epoch itself is let through.
epochOrInfNegativeOnly(t) == IF t.unix < 0 THEN Inf ELSE Finite(t.unix)

epochOrInf(t) == IF t.unix <= 0 THEN Inf ELSE Finite(t.unix)

\* fmt.Sprintf("%s-%s-%s", day, month, year): the text handed to the
\* day-month-year parse.
dayMonthYearText(parts) ==
    padDay(parts[1]) \o <<"-">> \o Title(ToLower(parts[2])) \o <<"-">>
        \o padYear(parts[3])

parseExpiry(raw) ==
    IF raw = <<>> THEN Inf
    ELSE IF EqualFold(raw, permanentText) \/ EqualFold(raw, noneText) THEN Inf
    ELSE LET parts == Split(raw, "-")
             dmy   == IF Len(parts) = 3
                      THEN parseDayMonthYear(dayMonthYearText(parts))
                      ELSE NoTime
             mdy   == parseMonthDayYear(raw)
         IN  IF dmy.ok THEN epochOrInf(dmy)
             ELSE IF mdy.ok THEN epochOrInf(mdy)
             ELSE Inf

\* ------------------------------------------------ the delimited-table parser

\* encoding/csv as configured here (Comma, LazyQuotes, Comment = '#',
\* FieldsPerRecord = 0): blank lines and lines that begin with the comment
\* character are skipped, and every record must have as many fields as the
\* first one.
IsCommentLine(line) == line # <<>> /\ line[1] # <<>> /\ line[1][1] = "#"

csvRecords(raw) ==
    SelectSeq(raw, LAMBDA line : line # <<>> /\ ~IsCommentLine(line))

csvReadAll(raw) ==
    LET records == csvRecords(raw)
    IN  IF \E i \in 1..Len(records) : Len(records[i]) # Len(records[1])
        THEN [records |-> <<>>, err |-> "wrong number of fields"]
        ELSE [records |-> records, err |-> "nil"]

trimRow(row) == [i \in 1..Len(row) |-> TrimSpace(row[i])]

\* (mutant) the first occurrence is numbered too.
dedupKeyNumbersFirst(key, count) == key \o Itoa(count)

\* The key of a row whose trimmed key has been seen count times, this one
\* included.
dedupKey(key, count) == IF count = 1 THEN key ELSE key \o Itoa(count)

\* The loop over the records: seen maps a key to its number of occurrences.
RECURSIVE dedupRows(_, _)
dedupRows(records, seen) ==
    IF records = <<>> THEN <<>>
    ELSE LET row   == trimRow(Head(records))
             key   == row[1]
             count == IF key \in DOMAIN seen THEN seen[key] + 1 ELSE 1
             seen2 == [k \in DOMAIN seen \cup {key} |->
                          IF k = key THEN count ELSE seen[k]]
         IN  <<[row EXCEPT ![1] = dedupKey(key, count)]>>
                 \o dedupRows(Tail(records), seen2)

splitFeatureExpOutput(raw) ==
    LET read == csvReadAll(raw)
    IN  IF read.err # "nil"
        THEN [records |-> <<>>, err |-> read.err]
        ELSE [records |-> dedupRows(read.records, <<>>), err |-> "nil"]

\* The capture pattern, read off the columns of a row: name, version,
\* license count, expiry text, vendor.
lmutilLicenseFeatureExpRegex(row) ==
    IF /\ Len(row) = 5
       /\ \A i \in 1..5 : row[i] # <<>>
       /\ AllDigits(row[3])
    THEN [matched |-> TRUE, name |-> row[1], version |-> row[2],
          licenses |-> row[3], expires |-> row[4], vendor |-> row[5]]
    ELSE [matched |-> FALSE, name |-> <<>>, version |-> <<>>,
          licenses |-> <<>>, expires |-> <<>>, vendor |-> <<>>]

RECURSIVE parseFeatureExpRecords(_)
parseFeatureExpRecords(records) ==
    IF records = <<>> THEN <<>>
    ELSE LET matches == lmutilLicenseFeatureExpRegex(Head(records))
         IN  (IF matches.matched
              THEN <<[name     |-> TrimSpace(matches.name),
                      version  |-> TrimSpace(matches.version),
                      licenses |-> TrimSpace(matches.licenses),
                      expires  |-> parseExpiry(matches.expires),
                      vendor   |-> TrimSpace(matches.vendor)]>>
              ELSE <<>>)
                 \o parseFeatureExpRecords(Tail(records))

\* ------------------------------------------------------------- the probes

\* An error value: its message and the target whose call made it.
Nil == [msg |-> "nil", license |-> ""]

Error(msg, license) == [msg |-> msg, license |-> license.Name]

\* What one run of the external tool does: kind is "ok" (exit status 0),
\* "exit" (non-zero exit status), "nostart" (the tool cannot be launched),
\* "nopipe" (no pipe for its standard output) or "noread" (reading its
\* standard output fails); stdout and stderr are what it wrote.

\* exec.Cmd.Output as used by runRlmstatCommand: on a non-zero exit the
\* captured standard error is appended to the captured standard output.
runRlmstatCommand(res) ==
    IF res.kind = "ok" THEN [out |-> res.stdout, err |-> "nil"]
    ELSE IF res.kind = "exit"
         THEN [out |-> res.stdout \o res.stderr, err |-> "exit status"]
         ELSE [out |-> res.stdout, err |-> res.kind]

\* The filter of the emit loop.
keepFeature(featuresToExclude, featuresToInclude, name) ==
    /\ ~contains(featuresToExclude, name)
    /\ ~(Len(featuresToInclude) > 0 /\ ~contains(featuresToInclude, name))

\* (mutant) the index label is the loop index itself.
featureSampleFromZero(license, feature, idx) ==
    [desc         |-> "lmstat_feature_exp",
     value        |-> feature.expires,
     license_name |-> license.Name,
     feature      |-> feature.name,
     index        |-> Itoa(idx),
     licenses     |-> feature.licenses,
     vendor       |-> feature.vendor,
     version      |-> feature.version]

featureSample(license, feature, idx) ==
    [desc         |-> "lmstat_feature_exp",
     value        |-> feature.expires,
     license_name |-> license.Name,
     feature      |-> feature.name,
     index        |-> Itoa(idx + 1),
     licenses     |-> feature.licenses,
     vendor       |-> feature.vendor,
     version      |-> feature.version]

\* The emit loop: idx counts the parsed features from 0.
RECURSIVE emitFeatures(_, _, _)
emitFeatures(license, features, idx) ==
    IF idx >= Len(features) THEN <<>>
    ELSE (IF keepFeature(splitCSVList(license.FeaturesToExclude),
                         splitCSVList(license.FeaturesToInclude),
                         features[idx + 1].name)
          THEN <<featureSample(license, features[idx + 1], idx)>>
          ELSE <<>>)
             \o emitFeatures(license, features, idx + 1)

missingTarget(license) == license.LicenseFile = "" /\ license.LicenseServer = ""

filterConflict(license) ==
    license.FeaturesToExclude # <<>> /\ license.FeaturesToInclude # <<>>

\* A hard execution error: the run failed and nothing was captured.
hardError(run) == run.err # "nil" /\ Len(run.out) = 0

\* (mutant) the filter lists are looked at only when the emit loop is reached.
collectFeatureExpForLicenseFilterLate(license, res) ==
    IF missingTarget(license)
    THEN [err     |-> Error("missing license_file or license_server", license),
          samples |-> <<>>, ran |-> FALSE, records |-> <<>>]
    ELSE LET run   == runRlmstatCommand(res)
             split == splitFeatureExpOutput(run.out)
         IN  IF hardError(run)
             THEN [err |-> Error(run.err, license), samples |-> <<>>,
                   ran |-> TRUE, records |-> <<>>]
             ELSE IF split.err # "nil"
             THEN [err |-> Error(split.err, license), samples |-> <<>>,
                   ran |-> TRUE, records |-> <<>>]
             ELSE IF filterConflict(license)
             THEN [err     |-> Error("features_to_include and features_to_exclude are both set", license),
                   samples |-> <<>>, ran |-> TRUE, records |-> split.records]
             ELSE [err     |-> Nil,
                   samples |-> emitFeatures(license,
                                   parseFeatureExpRecords(split.records), 0),
                   ran     |-> TRUE,
                   records |-> split.records]

\* One target of the feature-expiration probe.  res is what the tool does
\* when it is executed, ran tells whether it was, and records is the table
\* read from its output.
collectFeatureExpForLicense(license, res) ==
    IF missingTarget(license)
    THEN [err     |-> Error("missing license_file or license_server", license),
          samples |-> <<>>, ran |-> FALSE, records |-> <<>>]
    ELSE IF filterConflict(license)
    THEN [err     |-> Error("features_to_include and features_to_exclude are both set", license),
          samples |-> <<>>, ran |-> FALSE, records |-> <<>>]
    ELSE LET run   == runRlmstatCommand(res)
             split == splitFeatureExpOutput(run.out)
         IN  IF hardError(run)
             THEN [err |-> Error(run.err, license), samples |-> <<>>,
                   ran |-> TRUE, records |-> <<>>]
             ELSE IF split.err # "nil"
             THEN [err |-> Error(split.err, license), samples |-> <<>>,
                   ran |-> TRUE, records |-> <<>>]
             ELSE [err     |-> Nil,
                   samples |-> emitFeatures(license,
                                   parseFeatureExpRecords(split.records), 0),
                   ran     |-> TRUE,
                   records |-> split.records]

\* (mutant) the loop keeps the last error.
keepLastErr(firstErr, err) == IF err # Nil THEN err ELSE firstErr

\* getLmstatFeatureExpDate keeps the first error of its loop over the targets.
keepFirstErr(firstErr, err) == IF err # Nil /\ firstErr = Nil THEN err ELSE firstErr

upSample(license, server, value) ==
    [desc           |-> "lmstat_up",
     value          |-> value,
     license_name   |-> license.Name,
     license_server |-> server]

\* (mutant) a failed run is not told from a good one by its output.
lmstatUpdateIgnoresExit(license, res) ==
    IF license.LicenseFile = "" /\ license.LicenseServer = ""
    THEN [err |-> Nil, samples |-> <<upSample(license, "N/A", 0)>>,
          ran |-> FALSE, records |-> <<>>]
    ELSE LET server == IF license.LicenseFile # "" THEN license.LicenseFile
                       ELSE license.LicenseServer
             up     == IF res.kind \in {"nopipe", "nostart", "noread"}
                       THEN 0 ELSE 1
         IN  [err |-> Nil, samples |-> <<upSample(license, server, up)>>,
              ran |-> res.kind # "nopipe", records |-> <<>>]

\* One target of the usage probe: it sends one up sample and has no error
\* to return.
lmstatUpdate(license, res) ==
    IF license.LicenseFile = "" /\ license.LicenseServer = ""
    THEN [err |-> Nil, samples |-> <<upSample(license, "N/A", 0)>>,
          ran |-> FALSE, records |-> <<>>]
    ELSE LET server == IF license.LicenseFile # "" THEN license.LicenseFile
                       ELSE license.LicenseServer
             up     == IF \/ res.kind \in {"nopipe", "nostart", "noread"}
                          \/ (res.kind = "exit" /\ Len(res.stdout) = 0)
                       THEN 0 ELSE 1
         IN  [err |-> Nil, samples |-> <<upSample(license, server, up)>>,
              ran |-> res.kind # "nopipe", records |-> <<>>]

\* ------------------------------------------------ the line-scanning build

\* The delimiter of the table, which a line of free text may hold as any
\* other character ("|" stands for the rune of splitFeatureExpOutput).
Comma == "|"

\* The text of a line given as its delimiter-separated fields.
RECURSIVE lineText(_)
lineText(line) ==
    IF line = <<>> THEN <<>>
    ELSE IF Len(line) = 1 THEN line[1]
    ELSE line[1] \o <<Comma>> \o lineText(Tail(line))

\* strings.HasPrefix
HasPrefix(s, prefix) ==
    Len(s) >= Len(prefix) /\ SubSeq(s, 1, Len(prefix)) = prefix

\* strings.Fields: the maximal runs of characters that are not white space.
RECURSIVE Fields(_)
Fields(s) ==
    LET t == TrimLeft(s)
    IN  IF t = <<>> THEN <<>>
        ELSE LET n == IF \E i \in 1..Len(t) : t[i] \in WhiteSpace
                      THEN (CHOOSE i \in 1..Len(t) :
                                /\ t[i] \in WhiteSpace
                                /\ \A j \in 1..(i - 1) : t[j] \notin WhiteSpace) - 1
                      ELSE Len(t)
             IN  <<SubSeq(t, 1, n)>> \o Fields(SubSeq(t, n + 1, Len(t)))

featureMarker == <<"F", "e", "a", "t", "u", "r", "e", ":">>

expiresMarker == <<"E", "x", "p", "i", "r", "e", "s", ":", " ">>

\* \w of the pattern.
WordChars == LowerChars \cup UpperChars \cup DigitChars \cup {"_"}

\* \w{3} \d{2}, \d{4}
dateShape(t) ==
    /\ Len(t) = 12
    /\ \A i \in 1..3 : t[i] \in WordChars
    /\ t[4] = " "
    /\ t[5] \in DigitChars /\ t[6] \in DigitChars
    /\ t[7] = "," /\ t[8] = " "
    /\ \A i \in 9..12 : t[i] \in DigitChars

\* expRegexp.FindStringSubmatch(line): the leftmost match of
\* `Expires: (\w{3} \d{2}, \d{4})` and its capture.
expRegexp(line) ==
    LET At(i) == /\ SubSeq(line, i, i + Len(expiresMarker) - 1) = expiresMarker
                 /\ dateShape(SubSeq(line, i + Len(expiresMarker),
                                      i + Len(expiresMarker) + 11))
        places == {i \in 1..(Len(line) - Len(expiresMarker) - 11) : At(i)}
    IN  IF places = {} THEN [matched |-> FALSE, date |-> <<>>]
        ELSE LET i == CHOOSE k \in places : \A j \in places : k <= j
             IN  [matched |-> TRUE,
                  date    |-> SubSeq(line, i + Len(expiresMarker),
                                     i + Len(expiresMarker) + 11)]

\* (mutant) a marker line without a name clears the context.
afterMarkerCleared(currentFeature, line) ==
    IF Len(Fields(line)) >= 2 THEN Fields(line)[2] ELSE <<>>

\* currentFeature after a line that begins with the feature marker.
afterMarker(currentFeature, line) ==
    IF Len(Fields(line)) >= 2 THEN Fields(line)[2] ELSE currentFeature

lineSample(license, server, currentFeature, unix) ==
    [desc         |-> "lmstat_feature_exp",
     value        |-> Finite(unix),
     license_name |-> license.Name,
     feature      |-> currentFeature,
     index        |-> <<"0">>,
     licenses     |-> server,
     vendor       |-> <<>>,
     version      |-> <<>>]

\* The loop over the lines from line i on: the samples sent, each with the
\* number of the line that made it.
RECURSIVE parseLmstatExpirationOutput(_, _, _, _, _)
parseLmstatExpirationOutput(license, server, lines, i, currentFeature) ==
    IF i > Len(lines) THEN <<>>
    ELSE LET line  == lineText(lines[i])
             match == expRegexp(line)
             t     == parseMonthDayYear(match.date)
         IN  IF HasPrefix(line, featureMarker)
             THEN parseLmstatExpirationOutput(license, server, lines, i + 1,
                                              afterMarker(currentFeature, line))
             ELSE (IF match.matched /\ t.ok /\ currentFeature # <<>>
                   THEN <<[line   |-> i,
                           sample |-> lineSample(license, server, currentFeature, t.unix)]>>
                   ELSE <<>>)
                      \o parseLmstatExpirationOutput(license, server, lines, i + 1,
                                                     currentFeature)

\* One target of the feature-expiration probe, line-scanning build.  Only
\* the standard output of the tool is read.
lmstatFeatureExpUpdate(license, res) ==
    IF license.LicenseFile = "" /\ license.LicenseServer = ""
    THEN [err     |-> Error("missing license_file or license_server", license),
          samples |-> <<>>, ran |-> FALSE, records |-> <<>>, emitted |-> <<>>]
    ELSE IF res.kind \in {"nopipe", "nostart", "noread"}
    THEN [err     |-> Error(res.kind, license),
          samples |-> <<>>, ran |-> res.kind # "nopipe", records |-> <<>>,
          emitted |-> <<>>]
    ELSE IF res.kind = "exit" /\ Len(res.stdout) = 0
    THEN [err     |-> Error("exit status", license),
          samples |-> <<>>, ran |-> TRUE, records |-> <<>>, emitted |-> <<>>]
    ELSE LET server == IF license.LicenseFile # "" THEN license.LicenseFile
                       ELSE license.LicenseServer
             sent   == parseLmstatExpirationOutput(license, server, res.stdout, 1, <<>>)
         IN  [err     |-> Nil,
              samples |-> [j \in 1..Len(sent) |-> sent[j].sample],
              ran     |-> TRUE,
              records |-> <<>>,
              emitted |-> [j \in 1..Len(sent) |-> sent[j].line]]

\* --------------------------------------------------------- the orchestrator

\* registerCollector: the probes that register themselves at start-up.
UsageProbe == "lmstat"

FeatureExpProbe == "lmstat_feature_exp"

Registered == {UsageProbe, FeatureExpProbe}

VARIABLES
    strategy,        \* the build of the feature-expiration probe: "table", "lines"
    normalized,      \* one use of the expiry normalizer: its input and result
    previous,        \* the feature samples of the last scrape that ran the probe
    collectorState,  \* probe name -> enabled flag, fixed by the command line
    defaultConfig,   \* the loaded configuration: [Licenses: sequence of targets]
    rlmstat,         \* the outside world: probe -> target index -> tool run
    hpc,             \* handler: "idle", "gather", "done"
    filters,         \* the collect[] names of the request, until Collect starts
    status,          \* HTTP status of the response: 0 (none yet), 200, 400
    Collectors,      \* RlmlmCollector.Collectors of the request's collector
    cpc,             \* Collect: "none", "wait", "returned"
    wg,              \* the WaitGroup counter of Collect
    tpc,             \* probe task: "none", "update", "duration", "success",
                     \*             "wgDone", "finished", "panic"
    idx,             \* probe task: number of targets Update has handled
    firstErr,        \* probe task: firstErr of the Update loop
    updateErr,       \* probe task: what Update returned
    sink,            \* the samples sent on the metric channel, in order
    calls,           \* the per-target calls made by the Updates, in order
    scrapes          \* the requests served at the same time: request -> its
                     \* handler, registry, collector, tasks and channels

vars ==
    <<strategy, normalized, previous, collectorState, defaultConfig, rlmstat, hpc, filters, status, Collectors,
      cpc, wg, tpc, idx, firstErr, updateErr, sink, calls, scrapes>>

\* (mutant) a disabled probe passes the check.
RECURSIVE checkFiltersRegisteredOnly(_, _)
checkFiltersRegisteredOnly(state, names) ==
    IF names = <<>> THEN Nil
    ELSE IF Head(names) \notin DOMAIN state
    THEN [msg |-> "missing collector", license |-> Head(names)]
    ELSE checkFiltersRegisteredOnly(state, Tail(names))

\* The first requested name that is not registered or not enabled, if any.
RECURSIVE checkFilters(_, _)
checkFilters(state, names) ==
    IF names = <<>> THEN Nil
    ELSE IF Head(names) \notin DOMAIN state
    THEN [msg |-> "missing collector", license |-> Head(names)]
    ELSE IF ~state[Head(names)]
    THEN [msg |-> "disabled collector", license |-> Head(names)]
    ELSE checkFilters(state, Tail(names))

\* NewRlmlmCollector(cfg, logger, filters...): cfgIsNil tells whether neither
\* the argument nor defaultConfig holds a configuration.
NewRlmlmCollector(cfgIsNil, state, names) ==
    IF cfgIsNil
    THEN [err |-> [msg |-> "no configuration loaded", license |-> ""],
          Collectors |-> {}]
    ELSE IF checkFilters(state, names) # Nil
    THEN [err |-> checkFilters(state, names), Collectors |-> {}]
    ELSE [err |-> Nil,
          Collectors |-> {key \in DOMAIN state :
                             /\ state[key]
                             /\ (Len(names) = 0 \/ key \in Range(names))}]

\* The variable labels of the feature-expiration descriptor, in the order
\* in which both builds pass the label values.
lmstatFeatureExpLabels ==
    <<"license_name", "feature", "index", "licenses", "vendor", "version">>

\* (mutant) the up descriptor is declared without its server label.
variableLabelsWithoutServer(desc) ==
    IF desc = "lmstat_up" THEN <<"license_name">>
    ELSE IF desc = "lmstat_feature_exp" THEN lmstatFeatureExpLabels
    ELSE <<"collector">>

\* prometheus.NewDesc: the variable labels each descriptor is declared with.
variableLabels(desc) ==
    IF desc = "lmstat_up" THEN <<"license_name", "license_server">>
    ELSE IF desc = "lmstat_feature_exp" THEN lmstatFeatureExpLabels
    ELSE <<"collector">>

\* The label values passed with sample m: one for each of its label fields.
labelValues(m) == DOMAIN m \ {"desc", "value"}

\* prometheus.MustNewConstMetric panics when the number of label values is
\* not the number of variable labels of the descriptor.
MustNewConstMetric(m) ==
    IF Cardinality(labelValues(m)) # Len(variableLabels(m.desc))
    THEN "panic" ELSE "metric"

\* The samples of a call that are sent before one of them panics.
RECURSIVE beforePanic(_)
beforePanic(samples) ==
    IF samples = <<>> THEN <<>>
    ELSE IF MustNewConstMetric(Head(samples)) = "panic" THEN <<>>
    ELSE <<Head(samples)>> \o beforePanic(Tail(samples))

panics(samples) == beforePanic(samples) # samples

\* (mutant) a sample already sent by an earlier scrape is not sent again.
targetCallSkippingKnown(name, license, res) ==
    LET r == IF name = UsageProbe THEN lmstatUpdate(license, res)
             ELSE IF strategy = "lines" THEN lmstatFeatureExpUpdate(license, res)
             ELSE collectFeatureExpForLicense(license, res)
    IN  [r EXCEPT !.samples =
             SelectSeq(r.samples, LAMBDA m : m \notin previous.samples)]

\* One target of probe name.
targetCall(name, license, res) ==
    IF name = UsageProbe THEN lmstatUpdate(license, res)
    ELSE IF strategy = "lines" THEN lmstatFeatureExpUpdate(license, res)
    ELSE collectFeatureExpForLicense(license, res)

\* (mutant) the tool is killed at a deadline and the call returns.
neverReturnsPastDeadline(name, license, res) == FALSE

\* No timeout and no cancellation: the call of a target whose tool is
\* launched and never terminates (kind "hang") waits for it for ever.
neverReturns(name, license, res) ==
    res.kind = "hang" /\ targetCall(name, license, res).ran

\* What Update of probe name returns after its loop.
updateReturn(name, first) == IF name = UsageProbe THEN Nil ELSE first

\* (mutant) success is reported whatever Update returned.
successValueAlwaysOne(err) == 1

\* execute: the value of the scrape-success sample.
successValue(err) == IF err # Nil THEN 0 ELSE 1

durationSample(name) == [desc |-> "scrape_collector_duration_seconds", collector |-> name]

\* (mutant) the goroutine reads the loop variable, not its own argument.
successSampleOfLoopVariable(name, err) ==
    [desc |-> "scrape_collector_success", collector |-> FeatureExpProbe,
     value |-> successValue(err)]

successSample(name, err) ==
    [desc |-> "scrape_collector_success", collector |-> name,
     value |-> successValue(err)]

\* (mutant) the counter was set one too low.
waitReturnsEarly(counter) == counter <= 1

\* wg.Wait returns.
waitReturns(counter) == counter = 0

NoTask == [name \in Registered |-> "none"]

\* The feature samples among the samples sent, as a set.
featureSamples(sent) ==
    {sent[i] : i \in {j \in 1..Len(sent) : sent[j].desc = "lmstat_feature_exp"}}

NoPrevious == [any |-> FALSE, samples |-> {}]

\* No use of the normalizer.
NoText == [raw |-> <<>>, done |-> TRUE, parsed |-> <<>>, expires |-> Inf]

\* handler: build the collector for the requested names; answer 400 when
\* that fails, otherwise go on to gather.
handler(names) ==
    /\ hpc = "idle"
    /\ LET nc == NewRlmlmCollector(FALSE, collectorState, names)
       IN  /\ filters' = names
           /\ Collectors' = nc.Collectors
           /\ hpc' = IF nc.err # Nil THEN "done" ELSE "gather"
           /\ status' = IF nc.err # Nil THEN 400 ELSE 0
    /\ UNCHANGED <<scrapes, strategy, normalized, previous, collectorState, defaultConfig, rlmstat, cpc, wg, tpc, idx,
                   firstErr, updateErr, sink, calls>>

\* Collect: wg.Add(len(c.Collectors)) and one goroutine per probe.  The
\* handler has no further use for the requested names.
Collect ==
    /\ hpc = "gather" /\ cpc = "none"
    /\ wg' = Cardinality(Collectors)
    /\ tpc' = [name \in Registered |-> IF name \in Collectors THEN "update" ELSE "none"]
    /\ cpc' = "wait"
    /\ filters' = <<>>
    /\ UNCHANGED <<scrapes, strategy, normalized, previous, collectorState, defaultConfig, rlmstat, hpc, status,
                   Collectors, idx, firstErr, updateErr, sink, calls>>

\* Update of probe name handles its next target, or returns after the last.
Update(name) ==
    /\ tpc[name] = "update"
    /\ idx[name] < Len(defaultConfig.Licenses) =>
           ~neverReturns(name, defaultConfig.Licenses[idx[name] + 1],
                         rlmstat[name][idx[name] + 1])
    /\ IF idx[name] < Len(defaultConfig.Licenses)
       THEN LET i       == idx[name] + 1
                license == defaultConfig.Licenses[i]
                r       == targetCall(name, license, rlmstat[name][i])
            IN  /\ idx' = [idx EXCEPT ![name] = i]
                /\ firstErr' = [firstErr EXCEPT ![name] = keepFirstErr(@, r.err)]
                /\ sink' = sink \o beforePanic(r.samples)
                /\ calls' = Append(calls, [probe |-> name, target |-> i,
                                           err |-> r.err, ran |-> r.ran,
                                           samples |-> r.samples,
                                           records |-> r.records,
                                           emitted |-> IF "emitted" \in DOMAIN r
                                                       THEN r.emitted ELSE <<>>])
                /\ tpc' = IF panics(r.samples)
                          THEN [tpc EXCEPT ![name] = "panic"] ELSE tpc
                /\ UNCHANGED updateErr
       ELSE /\ updateErr' = [updateErr EXCEPT ![name] = updateReturn(name, firstErr[name])]
            /\ tpc' = [tpc EXCEPT ![name] = "duration"]
            /\ UNCHANGED <<idx, firstErr, sink, calls>>
    /\ UNCHANGED <<scrapes, strategy, normalized, previous, collectorState, defaultConfig, rlmstat, hpc, filters, status,
                   Collectors, cpc, wg>>

\* execute: send the duration sample.
SendDuration(name) ==
    /\ tpc[name] = "duration"
    /\ sink' = sink \o beforePanic(<<durationSample(name)>>)
    /\ tpc' = [tpc EXCEPT ![name] = IF panics(<<durationSample(name)>>)
                                    THEN "panic" ELSE "success"]
    /\ UNCHANGED <<scrapes, strategy, normalized, previous, collectorState, defaultConfig, rlmstat, hpc, filters, status,
                   Collectors, cpc, wg, idx, firstErr, updateErr, calls>>

\* execute: send the success sample.
SendSuccess(name) ==
    /\ tpc[name] = "success"
    /\ sink' = sink \o beforePanic(<<successSample(name, updateErr[name])>>)
    /\ tpc' = [tpc EXCEPT ![name] =
                  IF panics(<<successSample(name, updateErr[name])>>)
                  THEN "panic" ELSE "wgDone"]
    /\ UNCHANGED <<scrapes, strategy, normalized, previous, collectorState, defaultConfig, rlmstat, hpc, filters, status,
                   Collectors, cpc, wg, idx, firstErr, updateErr, calls>>

\* The goroutine's wg.Done().
Done(name) ==
    /\ tpc[name] = "wgDone"
    /\ wg' = wg - 1
    /\ tpc' = [tpc EXCEPT ![name] = "finished"]
    /\ UNCHANGED <<scrapes, strategy, normalized, previous, collectorState, defaultConfig, rlmstat, hpc, filters, status,
                   Collectors, cpc, idx, firstErr, updateErr, sink, calls>>

\* wg.Wait() returns, Collect returns and the response is written.
CollectReturn ==
    /\ cpc = "wait"
    /\ waitReturns(wg)
    /\ cpc' = "returned"
    /\ hpc' = "done"
    /\ status' = 200
    /\ UNCHANGED <<scrapes, strategy, normalized, previous, collectorState, defaultConfig, rlmstat, filters, Collectors, wg,
                   tpc, idx, firstErr, updateErr, sink, calls>>

\* The request is over; the next one starts from nothing.
NextRequest ==
    /\ hpc = "done"
    /\ hpc' = "idle"
    /\ filters' = <<>>
    /\ status' = 0
    /\ Collectors' = {}
    /\ cpc' = "none"
    /\ wg' = 0
    /\ tpc' = NoTask
    /\ idx' = [name \in Registered |-> 0]
    /\ firstErr' = [name \in Registered |-> Nil]
    /\ updateErr' = [name \in Registered |-> Nil]
    /\ sink' = <<>>
    /\ calls' = <<>>
    /\ previous' = IF cpc = "returned" /\ FeatureExpProbe \in Collectors
                   THEN [any |-> TRUE, samples |-> featureSamples(sink)]
                   ELSE previous
    /\ UNCHANGED <<scrapes, strategy, normalized, collectorState, defaultConfig, rlmstat>>

\* One use of the expiry normalizer on the text normalized.raw: parsed is
\* the text it hands to the day-month-year parse, if it does.
Normalize ==
    /\ ~normalized.done
    /\ LET parts == Split(normalized.raw, "-")
       IN  normalized' =
               [raw     |-> normalized.raw,
                done    |-> TRUE,
                parsed  |-> IF /\ normalized.raw # <<>>
                               /\ ~EqualFold(normalized.raw, permanentText)
                               /\ ~EqualFold(normalized.raw, noneText)
                               /\ Len(parts) = 3
                            THEN dayMonthYearText(parts) ELSE <<>>,
                expires |-> parseExpiry(normalized.raw)]
    /\ UNCHANGED <<scrapes, strategy, previous, collectorState, defaultConfig, rlmstat,
                   hpc, filters, status, Collectors, cpc, wg, tpc, idx,
                   firstErr, updateErr, sink, calls>>

\* ------------------------------------------- requests served concurrently

\* The variables of the request served alone.
alone ==
    <<strategy, normalized, previous, collectorState, defaultConfig, rlmstat,
      hpc, filters, status, Collectors, cpc, wg, tpc, idx, firstErr,
      updateErr, sink, calls>>

\* A request not yet received.  dpc counts the descriptors Describe has
\* sent, 3 once the descriptor channel is closed; gpc is Gather: "none",
\* "descs" (draining the descriptor channel), "metrics" (receiving from the
\* metric channel), "returned"; cpc is Collect: "none", "wait", "returned",
\* "closed" (the metric channel is closed); out holds the samples the
\* current target call of a task has still to send; metrics holds what
\* Gather received, by sending probe; ran lists the targets for which a
\* probe launched the tool.
NewScrape ==
    [hpc       |-> "idle",
     status    |-> 0,
     Collectors |-> {},
     dpc       |-> 0,
     gpc       |-> "none",
     cpc       |-> "none",
     wg        |-> 0,
     tpc       |-> NoTask,
     idx       |-> [name \in Registered |-> 0],
     firstErr  |-> [name \in Registered |-> Nil],
     updateErr |-> [name \in Registered |-> Nil],
     out       |-> [name \in Registered |-> <<>>],
     metrics   |-> [name \in Registered |-> <<>>],
     ran       |-> [name \in Registered |-> <<>>]]

\* (mutant) every request registers its collector with one shared registry.
registryShared(q) == 1

\* handler: registry := prometheus.NewRegistry() for each request, so the
\* tasks of request q send on the metric channel of Gather of request q.
registryOf(q) == q

\* (mutant) the task forgets wg.Done().
wgDoneForgotten(counter) == counter

\* wg.Done()
wgDone(counter) == counter - 1

\* handler for request q: build the collector; answer 400 when that fails;
\* otherwise register it and gather: Gather starts Describe and Collect,
\* and Collect adds the probes to the WaitGroup and starts their tasks.
ServeHTTP(q, names) ==
    /\ scrapes[q].hpc = "idle"
    /\ LET nc == NewRlmlmCollector(FALSE, collectorState, names)
       IN  scrapes' = [scrapes EXCEPT ![q] =
               IF nc.err # Nil
               THEN [@ EXCEPT !.hpc = "done", !.status = 400]
               ELSE [@ EXCEPT !.hpc = "gather",
                              !.Collectors = nc.Collectors,
                              !.gpc = "descs",
                              !.cpc = "wait",
                              !.wg = Cardinality(nc.Collectors),
                              !.tpc = [name \in Registered |->
                                          IF name \in nc.Collectors
                                          THEN "update" ELSE "none"]]]
    /\ UNCHANGED alone

\* Describe sends a descriptor and Gather, draining, receives it.
DescribeSend(q) ==
    /\ scrapes[q].gpc = "descs"
    /\ scrapes[q].dpc < 2
    /\ scrapes' = [scrapes EXCEPT ![q].dpc = @ + 1]
    /\ UNCHANGED alone

\* Describe has returned: close(descCh).
CloseDesc(q) ==
    /\ scrapes[q].gpc = "descs"
    /\ scrapes[q].dpc = 2
    /\ scrapes' = [scrapes EXCEPT ![q].dpc = 3]
    /\ UNCHANGED alone

\* Gather's loop over the descriptor channel ends when it is closed.
Drained(q) ==
    /\ scrapes[q].gpc = "descs"
    /\ scrapes[q].dpc = 3
    /\ scrapes' = [scrapes EXCEPT ![q].gpc = "metrics"]
    /\ UNCHANGED alone

\* Update of probe name can go on: it has sent the samples of its last
\* target call, and the tool of its next target, if launched, terminates.
callable(s, name) ==
    /\ s.tpc[name] = "update"
    /\ s.out[name] = <<>>
    /\ s.idx[name] < Len(defaultConfig.Licenses) =>
           ~neverReturns(name, defaultConfig.Licenses[s.idx[name] + 1],
                         rlmstat[name][s.idx[name] + 1])

\* Update of probe name of request q calls its next target, or returns
\* after the last; the samples of the call wait in out to be sent.
Call(q, name) ==
    LET s == scrapes[q]
    IN  /\ callable(s, name)
        /\ scrapes' = [scrapes EXCEPT ![q] =
               IF s.idx[name] < Len(defaultConfig.Licenses)
               THEN LET i == s.idx[name] + 1
                        r == targetCall(name, defaultConfig.Licenses[i], rlmstat[name][i])
                    IN  [s EXCEPT !.idx[name] = i,
                                  !.firstErr[name] = keepFirstErr(@, r.err),
                                  !.out[name] = beforePanic(r.samples),
                                  !.tpc[name] = IF panics(r.samples)
                                                THEN "panic" ELSE @,
                                  !.ran[name] = IF r.ran THEN Append(@, i) ELSE @]
               ELSE [s EXCEPT !.updateErr[name] = updateReturn(name, s.firstErr[name]),
                              !.tpc[name] = "duration"]]
        /\ UNCHANGED alone

\* What the task of probe name of request q sends next.
sending(s, name) ==
    IF s.tpc[name] = "update" THEN Head(s.out[name])
    ELSE IF s.tpc[name] = "duration" THEN durationSample(name)
    ELSE successSample(name, s.updateErr[name])

\* The task after its send: the next sample of the call, or the step of
\* execute that follows.
sent(s, name) ==
    IF s.tpc[name] = "update" THEN [s EXCEPT !.out[name] = Tail(@)]
    ELSE IF s.tpc[name] = "duration" THEN [s EXCEPT !.tpc[name] = "success"]
    ELSE [s EXCEPT !.tpc[name] = "wgDone"]

\* ch <- m: the send of a task meets the receive of Gather's loop over the
\* metric channel (the channel has no buffer); a send on the closed channel
\* panics, and so does the making of a sample with the wrong number of
\* label values.
Send(q, name) ==
    LET s == scrapes[q]
        g == registryOf(q)
    IN  /\ IF s.tpc[name] = "update" THEN s.out[name] # <<>>
           ELSE s.tpc[name] \in {"duration", "success"}
        /\ IF scrapes[g].cpc = "closed" \/ panics(<<sending(s, name)>>) THEN TRUE
           ELSE scrapes[g].gpc = "metrics"
        /\ scrapes' =
               IF scrapes[g].cpc = "closed" \/ panics(<<sending(s, name)>>)
               THEN [scrapes EXCEPT ![q].tpc[name] = "panic"]
               ELSE [p \in DOMAIN scrapes |->
                        LET t == IF p = q THEN sent(s, name) ELSE scrapes[p]
                        IN  IF p = g
                            THEN [t EXCEPT !.metrics[name] = Append(@, sending(s, name))]
                            ELSE t]
        /\ UNCHANGED alone

\* The goroutine's wg.Done().
WgDone(q, name) ==
    /\ scrapes[q].tpc[name] = "wgDone"
    /\ scrapes' = [scrapes EXCEPT ![q].wg = wgDone(@),
                                  ![q].tpc[name] = "finished"]
    /\ UNCHANGED alone

\* wg.Wait() returns and Collect returns.
WaitReturn(q) ==
    /\ scrapes[q].cpc = "wait"
    /\ waitReturns(scrapes[q].wg)
    /\ scrapes' = [scrapes EXCEPT ![q].cpc = "returned"]
    /\ UNCHANGED alone

\* close(metricCh) after Collect has returned.
CloseMetric(q) ==
    /\ scrapes[q].cpc = "returned"
    /\ scrapes' = [scrapes EXCEPT ![q].cpc = "closed"]
    /\ UNCHANGED alone

\* Gather's loop over the metric channel ends when it is closed; Gather
\* returns the families and the response is written.
GatherReturn(q) ==
    /\ scrapes[q].gpc = "metrics"
    /\ scrapes[q].cpc = "closed"
    /\ scrapes' = [scrapes EXCEPT ![q].gpc = "returned",
                                  ![q].hpc = "done",
                                  ![q].status = 200]
    /\ UNCHANGED alone

\* ------------------------------------------------------------------ bounds

MaxTargets == 2

MaxFilters == 2

RECURSIVE SeqsUpTo(_, _)
SeqsUpTo(S, n) ==
    IF n = 0 THEN {<<>>}
    ELSE LET shorter == SeqsUpTo(S, n - 1)
         IN  shorter \cup {Append(q, x) : q \in {r \in shorter : Len(r) = n - 1}, x \in S}

\* The names a request may ask for: the registered ones and one that is not.
FilterNames == Registered \cup {"nosuch"}

Requests == SeqsUpTo(FilterNames, MaxFilters)

LicenseNames == <<"L1", "L2", "L3", "L4">>

\* shapes[i] with the name of position i.
Named(shapes) ==
    [i \in 1..Len(shapes) |-> [shapes[i] EXCEPT !.Name = LicenseNames[i]]]

Target(file, server, exclude, include) ==
    [Name |-> "", LicenseFile |-> file, LicenseServer |-> server,
     FeaturesToExclude |-> exclude, FeaturesToInclude |-> include]

Run(kind, stdout, stderr) == [kind |-> kind, stdout |-> stdout, stderr |-> stderr]

dec31 == <<"3", "1", "-", "d", "e", "c", "-", "2", "0", "2", "5">>

Row(key, expiry) == <<key, <<"1", ".", "0">>, <<"5">>, expiry, <<"V">> >>

\* A tool run that is not looked at: the probe is disabled.
NoRun == Run("nostart", <<>>, <<>>)

Idle ==
    /\ hpc = "idle"
    /\ filters = <<>>
    /\ status = 0
    /\ Collectors = {}
    /\ cpc = "none"
    /\ wg = 0
    /\ tpc = NoTask
    /\ idx = [name \in Registered |-> 0]
    /\ firstErr = [name \in Registered |-> Nil]
    /\ updateErr = [name \in Registered |-> Nil]
    /\ sink = <<>>
    /\ calls = <<>>
    /\ previous = NoPrevious

\* The start-up states: enabled flags from States, configurations of up to
\* n targets shaped as in Shapes, tool runs from Runs.
StartupOf(Strategies, States, Shapes, Runs, n) ==
    /\ strategy \in Strategies
    /\ normalized = NoText
    /\ collectorState \in States
    /\ \E shapes \in SeqsUpTo(Shapes, n) :
           defaultConfig = [Licenses |-> Named(shapes)]
    /\ scrapes = <<>>
    /\ rlmstat \in [Registered -> [1..Len(defaultConfig.Licenses) -> Runs \cup {NoRun}]]
    /\ \A name \in Registered : \A i \in 1..Len(defaultConfig.Licenses) :
           IF collectorState[name] THEN rlmstat[name][i] \in Runs
           ELSE rlmstat[name][i] = NoRun
    /\ Idle

\* The delimited-table build.
Startup(States, Shapes, Runs, n) == StartupOf({"table"}, States, Shapes, Runs, n)

Next ==
    \/ \E names \in Requests : handler(names)
    \/ Collect
    \/ \E name \in Registered : Update(name)
    \/ \E name \in Registered : SendDuration(name)
    \/ \E name \in Registered : SendSuccess(name)
    \/ \E name \in Registered : Done(name)
    \/ CollectReturn
    \/ NextRequest

\* Orchestration: both probes, enabled or not, over plain targets.
SpecShapes ==
    {Target("/opt/lic", "", <<>>, <<>>), Target("", "", <<>>, <<>>)}

SpecRuns ==
    {Run("ok", <<Row(<<"A">>, dec31)>>, <<>>), Run("exit", <<>>, <<>>)}

Init == Startup([Registered -> BOOLEAN], SpecShapes, SpecRuns, MaxTargets)

Spec == Init /\ [][Next]_vars

\* Only the feature-expiration probe is enabled.
FeatureExpOnly == {[name \in Registered |-> name = FeatureExpProbe]}

permanent == <<"p", "e", "r", "m", "a", "n", "e", "n", "t">>

\* Tool outputs: a table of two features, a table followed by a line of
\* one field, a line that is no feature row, and a line of a message.
TwoFeatures == <<Row(<<"A">>, dec31), Row(<<"B">>, permanent)>>

RaggedTable == <<Row(<<"A">>, dec31), <<<<"A">>, <<"x">> >> >>

NoFeature == << <<<<"x">>>> >>

Message == << <<<<"e", "r", "r">>>> >>

\* Execution outcomes of the feature-expiration probe.
ExecShapes ==
    {Target("/opt/lic", "", <<>>, <<>>),
     Target("", "", <<>>, <<>>),
     Target("", "srv:5053", <<"A">>, <<"A">>)}

ExecRuns ==
      {Run("ok", out, <<>>) : out \in {<<>>, TwoFeatures, RaggedTable, NoFeature}}
    \cup {Run("exit", out, <<>>) : out \in {<<>>, TwoFeatures, RaggedTable}}
    \cup {Run("exit", out, Message) : out \in {<<>>, TwoFeatures}}
    \cup {Run("nostart", <<>>, <<>>)}

InitExec == Startup(FeatureExpOnly, ExecShapes, ExecRuns, MaxTargets)

SpecExec == InitExec /\ [][Next]_vars

\* Include and exclude lists over a table whose names are A, B, A2 and C.
FilterTexts ==
    {<<>>, <<"A">>, <<",", " ">>, <<"B", ",", " ", "A", "2">>, <<" ", "C", " ">>}

FilterShapes ==
    {Target("/opt/lic", "", exclude, include) :
         exclude \in FilterTexts, include \in FilterTexts}

FourFeatures ==
    <<Row(<<"A">>, dec31), Row(<<"B">>, permanent), Row(<<"A">>, dec31),
      Row(<<"C">>, dec31)>>

FilterRuns == {Run("ok", FourFeatures, <<>>)}

InitFilter == Startup(FeatureExpOnly, FilterShapes, FilterRuns, MaxTargets)

SpecFilter == InitFilter /\ [][Next]_vars

\* Tables of up to MaxRows lines over a few keys, one target.
MaxRows == 3

TableLines ==
      {Row(key, dec31) : key \in {<<"A">>, <<" ", "A">>, <<"B", " ">>, <<"A", "2">>}}
    \cup {<< <<"#", "A">> >>, <<>>}

SplitShapes == {Target("/opt/lic", "", <<>>, <<>>)}

SplitRuns == {Run("ok", out, <<>>) : out \in SeqsUpTo(TableLines, MaxRows)}

InitSplit == Startup(FeatureExpOnly, SplitShapes, SplitRuns, 1)

SpecSplit == InitSplit /\ [][Next]_vars

\* Free-text outputs of up to MaxRows lines: feature markers with and
\* without a name, expiry fragments (a date, the epoch, no day of the
\* calendar) and a line that is neither.
ScanLines ==
    {<<<<"F", "e", "a", "t", "u", "r", "e", ":", " ", "A">>>>,
     <<<<"F", "e", "a", "t", "u", "r", "e", ":", " ", "B">>>>,
     <<<<"F", "e", "a", "t", "u", "r", "e", ":">>>>,
     <<<<"E", "x", "p", "i", "r", "e", "s", ":", " ", "J", "a", "n", " ", "0", "2", ",", " ", "2", "0", "3", "0">>>>,
     <<<<"E", "x", "p", "i", "r", "e", "s", ":", " ", "J", "a", "n", " ", "0", "1", ",", " ", "1", "9", "7", "0">>>>,
     <<<<"E", "x", "p", "i", "r", "e", "s", ":", " ", "F", "e", "b", " ", "3", "0", ",", " ", "2", "0", "2", "5">>>>,
     <<<<"x">>>>}

LinesRuns == {Run("ok", out, <<>>) : out \in SeqsUpTo(ScanLines, MaxRows)}

InitLines == StartupOf({"lines"}, FeatureExpOnly, SplitShapes, LinesRuns, 1)

SpecLines == InitLines /\ [][Next]_vars

\* The line-scanning build over targets with include and exclude lists.
LineFilterShapes ==
    {Target("/opt/lic", "", exclude, include) :
         exclude \in {<<>>, <<"A">>}, include \in {<<>>, <<"A">>}}

LineFilterRuns ==
    {Run("ok", <<<<featureMarker \o <<" ">> \o name>>,
                 <<expiresMarker \o <<"J", "a", "n", " ", "0", "2", ",", " ", "2", "0", "3", "0">>>> >>,
         <<>>) : name \in {<<"A">>, <<"B">>}}

InitLineFilter ==
    StartupOf({"lines"}, FeatureExpOnly, LineFilterShapes, LineFilterRuns, MaxTargets)

SpecLineFilter == InitLineFilter /\ [][Next]_vars

\* Both probes over targets whose tool may never terminate, every task and
\* Collect being scheduled again and again while it can take a step.
BothProbes == {[name \in Registered |-> TRUE]}

HangRuns == {Run("ok", NoFeature, <<>>), Run("hang", <<>>, <<>>)}

InitHang == Startup(BothProbes, SplitShapes, HangRuns, MaxTargets)

TaskOf(name) ==
    Update(name) \/ SendDuration(name) \/ SendSuccess(name) \/ Done(name)

SpecHang ==
    /\ InitHang
    /\ [][Next]_vars
    /\ \A name \in Registered : WF_vars(TaskOf(name))
    /\ WF_vars(CollectReturn)

\* Requests served at the same time, each for all probes, for one, or for
\* one that does not exist, over one target.
MaxRequests == 2

RequestIds == 1..MaxRequests

GatherRequests == {<<>>, <<UsageProbe>>, <<"nosuch">>}

\* The first request may name one probe; the others name none or a probe
\* that does not exist.
RequestsOf(q) == IF q = 1 THEN GatherRequests ELSE GatherRequests \ {<<UsageProbe>>}

GatherRun == Run("ok", <<Row(<<"A">>, dec31)>>, <<>>)

InitGather ==
    /\ strategy = "table"
    /\ normalized = NoText
    /\ collectorState = [name \in Registered |-> TRUE]
    /\ defaultConfig =
           [Licenses |-> Named(<<Target("/opt/lic", "", <<>>, <<>>)>>)]
    /\ rlmstat = [name \in Registered |-> <<GatherRun>>]
    /\ Idle
    /\ scrapes = [q \in RequestIds |-> NewScrape]

NextGather ==
    \/ \E q \in RequestIds : \E names \in RequestsOf(q) : ServeHTTP(q, names)
    \/ \E q \in RequestIds : DescribeSend(q)
    \/ \E q \in RequestIds : CloseDesc(q)
    \/ \E q \in RequestIds : Drained(q)
    \/ \E q \in RequestIds : \E name \in Registered : Call(q, name)
    \/ \E q \in RequestIds : \E name \in Registered : Send(q, name)
    \/ \E q \in RequestIds : \E name \in Registered : WgDone(q, name)
    \/ \E q \in RequestIds : WaitReturn(q)
    \/ \E q \in RequestIds : CloseMetric(q)
    \/ \E q \in RequestIds : GatherReturn(q)

SpecGather == InitGather /\ [][NextGather]_vars

\* Targets that name a file, a server, neither, or both.
TargetShapes ==
    {Target(file, server, <<>>, <<>>) :
         file \in {"", "/opt/lic"}, server \in {"", "srv:5053"}}

TargetRuns == {Run("ok", TwoFeatures, <<>>), Run("exit", <<>>, <<>>)}

InitTarget == Startup(FeatureExpOnly, TargetShapes, TargetRuns, MaxTargets)

SpecTarget == InitTarget /\ [][Next]_vars

\* A table with a row the pattern does not match (its license count is no
\* number) and a repeated key, over targets with an include or an exclude
\* list.
IndexShapes ==
    {Target("/opt/lic", "", <<>>, <<>>),
     Target("/opt/lic", "", <<"A">>, <<>>),
     Target("/opt/lic", "", <<"B", ",", "A", "2">>, <<>>),
     Target("/opt/lic", "", <<>>, <<"A", ",", "C">>),
     Target("/opt/lic", "", <<>>, <<"x">>)}

IndexTable ==
    <<Row(<<"A">>, dec31),
      <<<<"N">>, <<"1", ".", "0">>, <<"x">>, dec31, <<"V">> >>,
      Row(<<"B">>, permanent), Row(<<"A">>, dec31), Row(<<"C">>, dec31)>>

IndexRuns == {Run("ok", IndexTable, <<>>), Run("ok", TwoFeatures, <<>>)}

InitIndex == Startup(FeatureExpOnly, IndexShapes, IndexRuns, MaxTargets)

SpecIndex == InitIndex /\ [][Next]_vars

\* Only the usage probe is enabled; every way a run of the tool can end.
UsageOnly == {[name \in Registered |-> name = UsageProbe]}

UsageShapes ==
    {Target("/opt/lic", "", <<>>, <<>>),
     Target("", "srv:5053", <<>>, <<>>),
     Target("", "", <<>>, <<>>)}

UsageRuns ==
      {Run("ok", out, <<>>) : out \in {<<>>, NoFeature}}
    \cup {Run("exit", out, <<>>) : out \in {<<>>, NoFeature}}
    \cup {Run("exit", <<>>, Message)}
    \cup {Run(kind, <<>>, <<>>) : kind \in {"nopipe", "nostart", "noread"}}

InitUsage == Startup(UsageOnly, UsageShapes, UsageRuns, MaxTargets)

SpecUsage == InitUsage /\ [][Next]_vars

\* Scrape after scrape of the same targets, in either build: a table with a
\* repeated key, a free text with a marker and an expiry, and a failed run.
ScrapeRuns ==
    {Run("ok", <<Row(<<"A">>, dec31), Row(<<"A">>, dec31)>>, <<>>),
     Run("ok", << <<<<"F", "e", "a", "t", "u", "r", "e", ":", " ", "A">>>>, <<<<"E", "x", "p", "i", "r", "e", "s", ":", " ", "J", "a", "n", " ", "0", "2", ",", " ", "2", "0", "3", "0">>>> >>, <<>>),
     Run("exit", <<>>, <<>>)}

InitScrapes ==
    StartupOf({"table", "lines"}, FeatureExpOnly, SpecShapes, ScrapeRuns, MaxTargets)

SpecScrapes == InitScrapes /\ [][Next]_vars

\* Expiry texts: hyphenated texts over a few day, month and year tokens, texts
\* of the second date form, and texts that are no date.
DayTokens ==
    {<<"1">>, <<"3", "1">>, <<"0", "1">>, <<"3", "2">>}

MonthTokens ==
    {<<"d", "e", "c">>, <<"D", "E", "C">>, <<"J", "a", "n">>,
     <<"x", "y", "z">>}

YearTokens ==
    {<<"2", "0", "2", "5">>, <<"1", "9", "7", "0">>, <<"1", "9", "6", "9">>,
     <<"2", "5">>, <<"5">>, <<"0", "2", "5">>}

OtherTexts ==
    {<<"3", "1", "-", "d", "e", "c">>, <<"1", "-", "2", "-", "3", "-", "4">>,
     <<"3", "1", "-", "d", "e", "c", "-">>,
     <<"D", "e", "c", " ", "3", "1", ",", " ", "2", "0", "2", "5">>,
     <<"J", "a", "n", " ", "0", "1", ",", " ", "1", "9", "7", "0">>,
     <<"J", "a", "n", " ", "0", "2", ",", " ", "2", "0", "3", "0">>,
     <<"F", "e", "b", " ", "3", "0", ",", " ", "2", "0", "2", "5">>,
     <<"d", "e", "c", " ", "3", "1", ",", " ", "2", "0", "2", "5">>,
     <<"D", "e", "c", " ", "3", "1", " ", "2", "0", "2", "5">>,
     <<"D", "e", "c", " ", "3", "1", ",", " ", "1", "9", "6", "9">>, <<>>,
     <<"p", "e", "r", "m", "a", "n", "e", "n", "t">>,
     <<"P", "E", "R", "M", "A", "N", "E", "N", "T">>,
     <<"P", "e", "r", "m", "a", "n", "e", "n", "t">>, <<"n", "o", "n", "e">>,
     <<"N", "o", "n", "e">>, <<"N", "O", "N", "E">>, <<"f", "o", "o">>,
     <<"n", "e", "v", "e", "r">>,
     <<"3", "1", "/", "1", "2", "/", "2", "0", "2", "5">>}

ExpiryTexts ==
    {d \o <<"-">> \o m \o <<"-">> \o y :
         d \in DayTokens, m \in MonthTokens, y \in YearTokens}
        \cup OtherTexts

InitExpiry ==
    /\ strategy = "table"
    /\ normalized \in {[raw |-> raw, done |-> FALSE, parsed |-> <<>>, expires |-> Inf] :
                          raw \in ExpiryTexts}
    /\ collectorState = [name \in Registered |-> FALSE]
    /\ defaultConfig = [Licenses |-> <<>>]
    /\ rlmstat = [name \in Registered |-> <<>>]
    /\ scrapes = <<>>
    /\ Idle

NextExpiry == Normalize

SpecExpiry == InitExpiry /\ [][NextExpiry]_vars

\* ------------------------------------------------------------------ claims

SamplesOf(desc, name) ==
    SelectSeq(sink, LAMBDA m : m.desc = desc /\ m.collector = name)

SuccessOf(name) == SamplesOf("scrape_collector_success", name)

DurationOf(name) == SamplesOf("scrape_collector_duration_seconds", name)

\* C1: Collect starts one task per probe of the collector set and returns
\* only after every one of them has finished: each probe's Update has
\* returned after its last target and its duration and success samples
\* have been sent.
C1_CollectWaitsForEveryProbe ==
    /\ cpc # "none" =>
           \A name \in Registered : (tpc[name] # "none") <=> (name \in Collectors)
    /\ cpc = "returned" =>
           \A name \in Collectors :
               /\ tpc[name] = "finished"
               /\ idx[name] = Len(defaultConfig.Licenses)
               /\ Len(DurationOf(name)) >= 1
               /\ Len(SuccessOf(name)) >= 1

C1_Witness ==
    /\ cpc = "returned"
    /\ Collectors = Registered
    /\ Len(defaultConfig.Licenses) = 2

\* C2: for every probe of the collector set the scrape holds exactly one
\* success sample labelled with the probe's name, of value 1 if and only if
\* the probe's Update returned no error and 0 otherwise, and exactly one
\* duration sample; never more than one of either while the scrape runs.
C2_OneSuccessAndDurationPerProbe ==
    /\ \A name \in Registered :
           /\ Len(SuccessOf(name)) <= 1
           /\ Len(DurationOf(name)) <= 1
           /\ name \notin Collectors =>
                  Len(SuccessOf(name)) = 0 /\ Len(DurationOf(name)) = 0
    /\ cpc = "returned" =>
           \A name \in Collectors :
               /\ Len(SuccessOf(name)) = 1
               /\ Len(DurationOf(name)) = 1
               /\ SuccessOf(name)[1].value \in {0, 1}
               /\ (SuccessOf(name)[1].value = 1) <=> (updateErr[name] = Nil)

C2_Witness ==
    /\ cpc = "returned"
    /\ Collectors = Registered
    /\ updateErr[FeatureExpProbe] # Nil
    /\ updateErr[UsageProbe] = Nil

\* The samples a probe's Update sends, in order.
ProbeDesc(name) == IF name = UsageProbe THEN "lmstat_up" ELSE "lmstat_feature_exp"

SentBy(name) == SelectSeq(sink, LAMBDA m : m.desc = ProbeDesc(name))

\* The samples a probe owes for the configured targets, target by target.
RECURSIVE OwedFrom(_, _)
OwedFrom(name, i) ==
    IF i > Len(defaultConfig.Licenses) THEN <<>>
    ELSE targetCall(name, defaultConfig.Licenses[i], rlmstat[name][i]).samples
             \o OwedFrom(name, i + 1)

TaskStep ==
    \/ \E name \in Registered : Update(name)
    \/ \E name \in Registered : SendDuration(name)
    \/ \E name \in Registered : SendSuccess(name)
    \/ \E name \in Registered : Done(name)
    \/ CollectReturn

\* C3: when a probe's Update returns an error, Collect can still go on until
\* it returns, and when it has returned every probe of the set has sent all
\* the samples it owes, the failing probe's success sample is 0 and the
\* success sample of every probe that did not fail is 1.
C3_FailureIsIsolated ==
    (\E failed \in Collectors : updateErr[failed] # Nil) =>
        /\ cpc = "wait" => ENABLED TaskStep
        /\ cpc = "returned" =>
               \A name \in Collectors :
                   /\ SentBy(name) = OwedFrom(name, 1)
                   /\ Len(SuccessOf(name)) = 1
                   /\ SuccessOf(name)[1].value =
                          (IF updateErr[name] # Nil THEN 0 ELSE 1)

C3_Witness ==
    /\ cpc = "returned"
    /\ updateErr[FeatureExpProbe] # Nil
    /\ UsageProbe \in Collectors
    /\ Len(SentBy(UsageProbe)) = 2
    /\ Len(SentBy(FeatureExpProbe)) = 1

\* C4: building the collector fails closed.  A request naming a probe that
\* is unregistered or disabled is answered 400 with no collector, no task and
\* no sample; otherwise the collector set is the set of requested names, or
\* the set of all enabled probes when no name is requested.
C4_FilteredCollectorFailsClosed ==
    (hpc # "idle" /\ cpc = "none") =>
        IF \E i \in 1..Len(filters) :
               filters[i] \notin Registered \/ ~collectorState[filters[i]]
        THEN /\ status = 400 /\ hpc = "done"
             /\ Collectors = {} /\ cpc = "none" /\ tpc = NoTask
             /\ sink = <<>> /\ calls = <<>>
        ELSE /\ status # 400
             /\ Collectors = IF filters = <<>>
                             THEN {name \in Registered : collectorState[name]}
                             ELSE Range(filters)

C4_Witness ==
    /\ status = 400
    /\ \A i \in 1..Len(filters) : filters[i] \in Registered
    /\ Len(filters) = 2
    /\ \E i \in 1..Len(filters) : collectorState[filters[i]]

\* The calls of a probe's Update, the target of a call and what the tool
\* run of a call hands back.
CallsOf(name) == SelectSeq(calls, LAMBDA c : c.probe = name)

LicenseOf(c) == defaultConfig.Licenses[c.target]

RunOf(c) == runRlmstatCommand(rlmstat[c.probe][c.target])

Returned(name) == tpc[name] \in {"duration", "success", "wgDone", "finished"}

ConflictMsg == "features_to_include and features_to_exclude are both set"

\* C5: for a target of the feature-expiration probe whose tool was run, a
\* failed run with captured output is soft (the target returns no error and
\* the output is parsed), and a failed run without output is hard (the
\* target returns the execution error and sends no sample).
C5_SoftAndHardExecution ==
    \A k \in 1..Len(calls) :
        LET c   == calls[k]
            run == RunOf(c)
        IN  (c.probe = FeatureExpProbe /\ c.ran /\ run.err # "nil") =>
                IF Len(run.out) > 0
                THEN c.err = Nil
                ELSE c.err = Error(run.err, LicenseOf(c)) /\ c.samples = <<>>

\* C6: Update of the feature-expiration probe calls the targets one at a
\* time in configuration order, calls every target whatever the earlier
\* ones returned, and returns the error of the first failing target, nil if
\* and only if none failed.
C6_FirstErrorAllTargets ==
    LET mine    == CallsOf(FeatureExpProbe)
        failing == {k \in 1..Len(mine) : mine[k].err # Nil}
    IN  /\ Len(mine) = idx[FeatureExpProbe]
        /\ \A k \in 1..Len(mine) : mine[k].target = k
        /\ Returned(FeatureExpProbe) =>
               /\ Len(mine) = Len(defaultConfig.Licenses)
               /\ (updateErr[FeatureExpProbe] = Nil) <=> (failing = {})
               /\ failing # {} =>
                      updateErr[FeatureExpProbe] =
                          mine[CHOOSE k \in failing : \A j \in failing : k <= j].err

C6_Witness ==
    LET mine == CallsOf(FeatureExpProbe)
    IN  /\ Returned(FeatureExpProbe)
        /\ Len(mine) = 2
        /\ mine[1].err # Nil /\ mine[2].err # Nil
        /\ mine[1].err.msg # mine[2].err.msg
        /\ mine[2].ran

\* C7: a target that names its file or server is rejected with the
\* configuration error, sending no sample, if and only if its include list
\* and its exclude list, each taken as the set of trimmed non-empty names,
\* are both non-empty.
C7_ConflictOfNameSets ==
    \A k \in 1..Len(calls) :
        LET c == calls[k]
            l == LicenseOf(c)
        IN  (c.probe = FeatureExpProbe /\ ~missingTarget(l)) =>
                ((c.err.msg = ConflictMsg /\ c.samples = <<>>)
                    <=> (/\ splitCSVList(l.FeaturesToExclude) # <<>>
                         /\ splitCSVList(l.FeaturesToInclude) # <<>>))

FeatureOf(m) ==
    [name |-> m.feature, version |-> m.version, licenses |-> m.licenses,
     expires |-> m.value, vendor |-> m.vendor]

\* C8: for a target that names its file or server and has no filter
\* conflict (its include set and its exclude set, of trimmed non-empty
\* names, are not both non-empty), and whose output is obtained and read as
\* a table, the samples are, in parse order, the parsed records whose name
\* is not in the exclude set when that set is non-empty, otherwise those
\* whose name is in the include set when that set is non-empty, otherwise
\* all.
C8_FilteredRecords ==
    \A k \in 1..Len(calls) :
        LET c        == calls[k]
            l        == LicenseOf(c)
            split    == splitFeatureExpOutput(RunOf(c).out)
            excluded == Range(splitCSVList(l.FeaturesToExclude))
            included == Range(splitCSVList(l.FeaturesToInclude))
            Kept(f)  == IF excluded # {} THEN f.name \notin excluded
                        ELSE IF included # {} THEN f.name \in included
                        ELSE TRUE
        IN  (/\ c.probe = FeatureExpProbe
             /\ ~missingTarget(l)
             /\ ~(excluded # {} /\ included # {})
             /\ ~hardError(RunOf(c))
             /\ split.err = "nil") =>
                [j \in 1..Len(c.samples) |-> FeatureOf(c.samples[j])]
                    = SelectSeq(parseFeatureExpRecords(split.records), Kept)

\* C9: in the table read from one output, the k-th row carrying a given
\* trimmed first-column key keeps the key when k = 1 and has the decimal
\* number k appended to it when k >= 2; the count starts anew with every
\* output read.
C9_OccurrenceNumbering ==
    \A n \in 1..Len(calls) :
        LET c      == calls[n]
            rows   == csvRecords(RunOf(c).out)
            Key(i) == TrimSpace(rows[i][1])
            Nth(i) == Cardinality({j \in 1..i : Key(j) = Key(i)})
        IN  (c.probe = FeatureExpProbe /\ c.err = Nil) =>
                /\ Len(c.records) = Len(rows)
                /\ \A i \in 1..Len(rows) :
                       c.records[i][1] =
                           IF Nth(i) = 1 THEN Key(i) ELSE Key(i) \o Itoa(Nth(i))

C9_Witness ==
    \E n \in 1..Len(calls) :
        /\ calls[n].err = Nil
        /\ Len(calls[n].records) = 3
        /\ calls[n].records[1][1] = <<"A">>
        /\ calls[n].records[2][1] = <<"A", "2">>
        /\ calls[n].records[3][1] = <<"A", "3">>

\* C10: once output has been obtained for a target of the
\* feature-expiration probe (the tool was run and there was no hard
\* execution error), the target returns no error whatever the output holds.
C10_NoErrorFromOutput ==
    \A k \in 1..Len(calls) :
        LET c == calls[k]
        IN  (c.probe = FeatureExpProbe /\ c.ran /\ ~hardError(RunOf(c))) =>
                c.err = Nil

\* Texts that match neither date form, and dates on or before 1970-01-01.
NoDateTexts ==
    {<<"f", "o", "o">>, <<"n", "e", "v", "e", "r">>,
     <<"3", "1", "/", "1", "2", "/", "2", "0", "2", "5">>,
     <<"3", "1", "-", "d", "e", "c">>, <<"1", "-", "2", "-", "3", "-", "4">>,
     <<"F", "e", "b", " ", "3", "0", ",", " ", "2", "0", "2", "5">>,
     <<"D", "e", "c", " ", "3", "1", " ", "2", "0", "2", "5">>,
     <<"3", "2", "-", "d", "e", "c", "-", "2", "0", "2", "5">>,
     <<"1", "-", "x", "y", "z", "-", "2", "0", "2", "5">>}

EpochOrEarlierTexts ==
    {<<"1", "-", "J", "a", "n", "-", "1", "9", "7", "0">>,
     <<"0", "1", "-", "D", "E", "C", "-", "1", "9", "6", "9">>,
     <<"J", "a", "n", " ", "0", "1", ",", " ", "1", "9", "7", "0">>,
     <<"D", "e", "c", " ", "3", "1", ",", " ", "1", "9", "6", "9">>,
     <<"3", "1", "-", "d", "e", "c", "-", "5">>,
     <<"1", "-", "d", "e", "c", "-", "1", "9", "6", "9">>}

\* C11: the expiry normalizer returns +Infinity or a strictly positive
\* finite epoch for every text; the empty text, every letter-case variant of
\* "permanent" and "none", every text that matches no date form and every
\* date on or before 1970-01-01 give +Infinity, and 31-dec-2025 gives the
\* epoch of that day.
C11_ExpiryIsInfOrPositive ==
    normalized.done =>
        /\ normalized.expires = Inf
               \/ (~normalized.expires.inf /\ normalized.expires.unix > 0)
        /\ normalized.raw = <<>> => normalized.expires = Inf
        /\ ToLower(normalized.raw) \in {permanentText, noneText} =>
               normalized.expires = Inf
        /\ normalized.raw \in NoDateTexts \cup EpochOrEarlierTexts =>
               normalized.expires = Inf
        /\ normalized.raw \in {dec31, <<"D", "e", "c", " ", "3", "1", ",", " ", "2", "0", "2", "5">>} =>
               normalized.expires = Finite(UnixDay(2025, 12, 31))

C11_Witness ==
    /\ normalized.done
    /\ normalized.raw = <<"1", "-", "J", "a", "n", "-", "1", "9", "7", "0">>
    /\ normalized.expires = Inf

\* The digits of a token, left-padded with zeros to n characters.
RECURSIVE ZeroPadded(_, _)
ZeroPadded(token, n) ==
    IF Len(token) >= n THEN token ELSE ZeroPadded(<<"0">> \o token, n)

\* C19: for a text of exactly three hyphen-separated tokens, the text handed
\* to the day-month-year parse has a one-digit day left-padded with a zero
\* and a year of one, two or three digits left-padded with zeros to four.
C19_DayAndYearPadded ==
    LET parts  == Split(normalized.raw, "-")
        handed == Split(normalized.parsed, "-")
    IN  (normalized.done /\ normalized.parsed # <<>>) =>
            /\ Len(parts[1]) = 1 => handed[1] = <<"0">> \o parts[1]
            /\ Len(parts[3]) \in 1..3 => handed[3] = ZeroPadded(parts[3], 4)

\* The text of line i of the output a call read, and whether it begins
\* with the feature marker.
TextOf(c, i) == lineText(rlmstat[c.probe][c.target].stdout[i])

IsMarker(c, i) == HasPrefix(TextOf(c, i), featureMarker)

\* C12: in the line-scanning build every sample carries the feature name
\* of the most recent feature-marker line before the line that made it (the
\* second whitespace-separated token of that line), and a line with no
\* feature-marker line before it makes no sample.
C12_NameOfLatestMarker ==
    \A k \in 1..Len(calls) :
        LET c == calls[k]
        IN  (c.probe = FeatureExpProbe /\ strategy = "lines") =>
                \A j \in 1..Len(c.samples) :
                    LET markers == {i \in 1..(c.emitted[j] - 1) : IsMarker(c, i)}
                    IN  /\ markers # {}
                        /\ LET m == CHOOSE i \in markers : \A n \in markers : n <= i
                           IN  /\ Len(Fields(TextOf(c, m))) >= 2
                               /\ c.samples[j].feature = Fields(TextOf(c, m))[2]

\* C18: every feature-expiration sample sent, in either build, has a value
\* that is +Infinity or a strictly positive epoch.
C18_SampleIsInfOrPositive ==
    \A i \in 1..Len(sink) :
        sink[i].desc = "lmstat_feature_exp" =>
            sink[i].value.inf \/ sink[i].value.unix > 0

\* C20: in the line-scanning build the number of samples sent for one
\* output is the number of its lines that match the expiry pattern and come
\* after a feature-marker line.
C20_OneSamplePerExpiryLine ==
    \A k \in 1..Len(calls) :
        LET c     == calls[k]
            lines == rlmstat[c.probe][c.target].stdout
        IN  (c.probe = FeatureExpProbe /\ strategy = "lines" /\ c.err = Nil) =>
                Len(c.samples) =
                    Cardinality({i \in 1..Len(lines) :
                                    /\ expRegexp(TextOf(c, i)).matched
                                    /\ \E m \in 1..(i - 1) : IsMarker(c, m)})

\* The tool could not be run to an output for the target of call c: no
\* pipe, no start, no read, or a non-zero exit with nothing written.
ExecutionFailed(c) ==
    LET res == rlmstat[c.probe][c.target]
    IN  /\ ~missingTarget(LicenseOf(c))
        /\ \/ res.kind \in {"nopipe", "nostart", "noread"}
           \/ (res.kind = "exit" /\ Len(res.stdout) = 0 /\ Len(res.stderr) = 0)

UpSamples == SelectSeq(sink, LAMBDA m : m.desc = "lmstat_up")

\* C13: the usage probe sends exactly one up sample for every configured
\* target in every scrape, in target order, labelled with the target's
\* name; its value is 0 when the target names neither file nor server,
\* when the tool cannot be piped, started or read, or when it exits non-zero
\* with empty output, and 1 in every other case.
C13_OneUpSamplePerTarget ==
    LET mine == CallsOf(UsageProbe)
    IN  /\ Len(UpSamples) = Len(mine)
        /\ \A k \in 1..Len(mine) :
               LET l   == LicenseOf(mine[k])
                   res == rlmstat[UsageProbe][mine[k].target]
               IN  /\ mine[k].target = k
                   /\ UpSamples[k].license_name = l.Name
                   /\ UpSamples[k].value =
                          IF \/ missingTarget(l)
                             \/ res.kind \in {"nopipe", "nostart", "noread"}
                             \/ (res.kind = "exit" /\ Len(res.stdout) = 0)
                          THEN 0 ELSE 1
        /\ Returned(UsageProbe) => Len(UpSamples) = Len(defaultConfig.Licenses)

C13_Witness ==
    /\ Returned(UsageProbe)
    /\ Len(UpSamples) = 2
    /\ rlmstat[UsageProbe][1] = Run("exit", <<>>, <<>>)
    /\ UpSamples[1].value = 0
    /\ rlmstat[UsageProbe][2] = Run("exit", NoFeature, <<>>)
    /\ UpSamples[2].value = 1

\* C14: for either probe, a target whose tool run fails (no pipe, no
\* start, no read, or a non-zero exit with empty output) sends no sample
\* and returns an error, and the probe's success sample of the scrape is 0.
C14_ExecutionErrorFailsProbe ==
    \A k \in 1..Len(calls) :
        LET c == calls[k]
        IN  ExecutionFailed(c) =>
                /\ c.samples = <<>>
                /\ c.err # Nil
                /\ cpc = "returned" =>
                       /\ Len(SuccessOf(c.probe)) = 1
                       /\ SuccessOf(c.probe)[1].value = 0

C16_StderrNeverInfluences ==
    \A k \in 1..Len(calls) :
        LET c     == calls[k]
            l     == LicenseOf(c)
            res   == rlmstat[c.probe][c.target]
            quiet == targetCall(c.probe, l, [res EXCEPT !.stderr = <<>>])
        IN  c.probe = FeatureExpProbe =>
                /\ c.err = quiet.err
                /\ c.samples = quiet.samples
                /\ (c.ran /\ res.kind = "exit" /\ Len(res.stdout) = 0) =>
                       c.err = Error("exit status", l) /\ c.samples = <<>>

\* C17: the first-column keys of the rows read from one output are pairwise
\* distinct after disambiguation.
C17_KeysPairwiseDistinct ==
    \A k \in 1..Len(calls) :
        LET c == calls[k]
        IN  (c.probe = FeatureExpProbe /\ c.err = Nil) =>
                \A i, j \in 1..Len(c.records) :
                    i # j => c.records[i][1] # c.records[j][1]

\* C21: in the line-scanning build too, every sample sent for a target has
\* a name that passes the target's exclude and include lists, and a target
\* with both lists non-empty sends no sample.
C21_LineRecordsAreFiltered ==
    \A k \in 1..Len(calls) :
        LET c == calls[k]
            l == LicenseOf(c)
        IN  (c.probe = FeatureExpProbe /\ strategy = "lines") =>
                /\ \A i \in 1..Len(c.samples) :
                       keepFeature(splitCSVList(l.FeaturesToExclude),
                                   splitCSVList(l.FeaturesToInclude),
                                   c.samples[i].feature)
                /\ filterConflict(l) => c.samples = <<>>

\* The task of probe name is in the call of a target whose tool was launched
\* and never terminates.
InHungCall(name) ==
    /\ tpc[name] = "update"
    /\ idx[name] < Len(defaultConfig.Licenses)
    /\ rlmstat[name][idx[name] + 1].kind = "hang"
    /\ targetCall(name, defaultConfig.Licenses[idx[name] + 1],
                  rlmstat[name][idx[name] + 1]).ran

\* No target of a probe of the scrape launches a tool that never terminates.
EveryToolTerminates ==
    \A name \in Collectors : \A i \in 1..Len(defaultConfig.Licenses) :
        ~(/\ rlmstat[name][i].kind = "hang"
          /\ targetCall(name, defaultConfig.Licenses[i], rlmstat[name][i]).ran)

\* C22: a probe task in the call of a tool that never terminates stays
\* there for ever and Collect of that scrape never returns; a scrape all of
\* whose tool invocations terminate has every probe task finish and Collect
\* return, the tasks being scheduled fairly and the sink always receiving.
C22_ScrapeCompletion ==
    /\ [][\A name \in Registered :
               InHungCall(name) => (InHungCall(name) /\ cpc = "wait")']_vars
    /\ (cpc = "wait" /\ EveryToolTerminates)
           ~> (/\ cpc = "returned"
               /\ \A name \in Collectors : tpc[name] = "finished")

\* One probe has finished while the other waits for its tool.
C22_Witness ==
    /\ cpc = "wait"
    /\ InHungCall(FeatureExpProbe)
    /\ tpc[UsageProbe] = "finished"
    /\ idx[FeatureExpProbe] = 1

IsPrefix(a, b) == Len(a) <= Len(b) /\ SubSeq(b, 1, Len(a)) = a

\* What the task of probe name does in one scrape, from target i on: sent
\* is the samples of its target calls, then its duration and its success
\* sample; ran is the targets for which it launches the tool, in order.
RECURSIVE FanOutFrom(_, _, _)
FanOutFrom(name, i, first) ==
    IF i > Len(defaultConfig.Licenses)
    THEN [sent |-> <<durationSample(name),
                     successSample(name, updateReturn(name, first))>>,
          ran  |-> <<>>]
    ELSE LET r    == targetCall(name, defaultConfig.Licenses[i], rlmstat[name][i])
             rest == FanOutFrom(name, i + 1, keepFirstErr(first, r.err))
         IN  [sent |-> r.samples \o rest.sent,
              ran  |-> IF r.ran THEN <<i>> \o rest.ran ELSE rest.ran]

FanOut(name) == FanOutFrom(name, 1, Nil).sent

Launches(name) == FanOutFrom(name, 1, Nil).ran

UpdateReturned(s, name) == s.tpc[name] \in {"duration", "success", "wgDone", "finished"}

\* C23: of requests served at the same time, each has its own set of probes
\* and its own sink; each of its probes launches the tool once for each
\* target, whatever the other requests do, and what a request receives from
\* a probe is what that probe's own task sends, all of it once the request
\* is served.
C23_RequestsDoNotInterfere ==
    \A name \in Registered :
        LET task     == FanOutFrom(name, 1, Nil)
            own      == task.sent
            launches == task.ran
        IN  \A q \in DOMAIN scrapes :
                LET s == scrapes[q]
                IN  /\ IsPrefix(s.ran[name], launches)
                    /\ IsPrefix(s.metrics[name], own)
                    /\ name \notin s.Collectors =>
                           s.ran[name] = <<>> /\ s.metrics[name] = <<>>
                    /\ (name \in s.Collectors /\ UpdateReturned(s, name)) =>
                           s.ran[name] = launches
                    /\ (name \in s.Collectors /\ s.gpc = "returned") =>
                           s.metrics[name] = own

\* Every request is being served, each probe of each has launched the tool
\* for the target, and one request has received samples the other has not.
C23_Witness ==
    /\ \A q \in DOMAIN scrapes :
           /\ scrapes[q].hpc = "gather"
           /\ scrapes[q].Collectors = Registered
           /\ \A name \in Registered : scrapes[q].ran[name] = <<1>>
    /\ scrapes[1].metrics[FeatureExpProbe] = FanOut(FeatureExpProbe)
    /\ scrapes[2].metrics[FeatureExpProbe] = <<>>
    /\ Len(FanOut(FeatureExpProbe)) = 3

LastTwo(sq) == SubSeq(sq, Len(sq) - 1, Len(sq))

\* C26: no task sends on the closed metric channel; when Collect has
\* returned no task has anything left to send; and a task sends its
\* duration sample and then its success sample after its Update has
\* returned, as its last two sends.
C26_NoSendAfterCollectReturns ==
    \A q \in DOMAIN scrapes :
        LET s == scrapes[q]
        IN  \A name \in Registered :
                /\ s.tpc[name] # "panic"
                /\ s.cpc \in {"returned", "closed"} =>
                       s.tpc[name] \in {"none", "finished"} /\ s.out[name] = <<>>
                /\ s.tpc[name] = "update" =>
                       \A k \in 1..Len(s.metrics[name]) :
                           s.metrics[name][k].desc \notin
                               {"scrape_collector_duration_seconds",
                                "scrape_collector_success"}
                /\ s.tpc[name] \in {"wgDone", "finished"} =>
                       /\ Len(s.metrics[name]) >= 2
                       /\ LastTwo(s.metrics[name]) =
                              <<durationSample(name),
                                successSample(name, s.updateErr[name])>>

\* The metric channel of one request is closed after both its tasks sent
\* everything, while the tasks of the other request are still sending.
C26_Witness ==
    /\ scrapes[1].cpc = "closed"
    /\ scrapes[1].Collectors = Registered
    /\ \A name \in Registered : Len(scrapes[1].metrics[name]) = 3
    /\ scrapes[2].gpc = "metrics"
    /\ scrapes[2].tpc[UsageProbe] = "success"
    /\ scrapes[2].out[FeatureExpProbe] # <<>>

\* A step of Gather of request q or of one of the tasks it started, other
\* than a target call (which a task whose Update can go on can always make).
StepOf(q) ==
    \/ DescribeSend(q)
    \/ CloseDesc(q)
    \/ Drained(q)
    \/ \E name \in Registered : Send(q, name)
    \/ \E name \in Registered : WgDone(q, name)
    \/ WaitReturn(q)
    \/ CloseMetric(q)
    \/ GatherReturn(q)

\* C27: while Gather of a request has not returned, Gather or one of its
\* tasks can take a step; metrics are received only after the descriptor
\* channel is closed; and when Gather has returned both channels are
\* closed, no task is left waiting to send, and Gather has every sample its
\* tasks sent.
C27_GatherCannotDeadlock ==
    \A q \in DOMAIN scrapes :
        LET s == scrapes[q]
        IN  /\ s.hpc = "gather" =>
                   \/ \E name \in Registered : callable(s, name)
                   \/ ENABLED StepOf(q)
            /\ (\E name \in Registered : s.metrics[name] # <<>>) => s.dpc = 3
            /\ s.gpc = "returned" =>
                   /\ s.dpc = 3 /\ s.cpc = "closed"
                   /\ \A name \in Registered :
                          /\ s.tpc[name] \in {"none", "finished"}
                          /\ s.out[name] = <<>>
                          /\ s.metrics[name] =
                                 IF name \in s.Collectors THEN FanOut(name) ELSE <<>>

\* Both tasks wait to send while Gather still drains the descriptors, and
\* in the end Gather returns.
C27_Witness ==
    /\ scrapes[1].gpc = "returned"
    /\ scrapes[1].Collectors = Registered
    /\ scrapes[2].gpc = "descs"
    /\ scrapes[2].dpc = 1
    /\ \A name \in Registered : scrapes[2].out[name] # <<>>

ExactlyOneOf(l) == (l.LicenseFile # "") # (l.LicenseServer # "")

\* C24: the feature-expiration probe launches the tool only for a target
\* that names exactly one of file and server; for a target that names
\* neither or both it returns an error, launches nothing and sends nothing.
C24_ExactlyOneOfFileAndServer ==
    \A k \in 1..Len(calls) :
        LET c == calls[k]
            l == LicenseOf(c)
        IN  c.probe = FeatureExpProbe =>
                /\ c.ran => ExactlyOneOf(l)
                /\ ~ExactlyOneOf(l) =>
                       c.err # Nil /\ ~c.ran /\ c.samples = <<>>

\* The positions, among the rows the pattern matches, of the features that
\* pass the lists of target l.
KeptPositions(l, features) ==
    SelectSeq([p \in 1..Len(features) |-> p],
              LAMBDA p : keepFeature(splitCSVList(l.FeaturesToExclude),
                                     splitCSVList(l.FeaturesToInclude),
                                     features[p].name))

\* C28: the samples of one target of the delimited-table probe are those of
\* the matched rows that pass the lists, in order, each with the 1-based
\* position of its row among all matched rows as index label; so no two
\* samples of the target share an index label or a label tuple.
C28_IndexCountsMatchedRecords ==
    \A k \in 1..Len(calls) :
        LET c        == calls[k]
            l        == LicenseOf(c)
            features == parseFeatureExpRecords(c.records)
            kept     == KeptPositions(l, features)
        IN  (c.probe = FeatureExpProbe /\ strategy = "table" /\ c.err = Nil) =>
                /\ Len(c.samples) = Len(kept)
                /\ \A j \in 1..Len(kept) :
                       /\ c.samples[j].index = Itoa(kept[j])
                       /\ c.samples[j].feature = features[kept[j]].name
                /\ \A i, j \in 1..Len(c.samples) :
                       i # j => /\ c.samples[i].index # c.samples[j].index
                                /\ [c.samples[i] EXCEPT !.value = Inf] #
                                       [c.samples[j] EXCEPT !.value = Inf]

\* Of five rows four match; the first is excluded, and the samples of the
\* others keep the indexes 2, 3 and 4.
C28_Witness ==
    \E k \in 1..Len(calls) :
        LET c == calls[k]
        IN  /\ c.probe = FeatureExpProbe
            /\ Len(c.records) = 5
            /\ Len(parseFeatureExpRecords(c.records)) = 4
            /\ Len(c.samples) = 3
            /\ c.samples[1].index = <<"2">>
            /\ c.samples[3].index = <<"4">>

\* C29: a target of the delimited-table probe that names neither file nor
\* server, or that sets both lists, returns its configuration error without
\* the tool having been launched and without a sample.
C29_ChecksBeforeLaunch ==
    \A k \in 1..Len(calls) :
        LET c == calls[k]
            l == LicenseOf(c)
        IN  (c.probe = FeatureExpProbe /\ strategy = "table") =>
                /\ missingTarget(l) =>
                       /\ c.err = Error("missing license_file or license_server", l)
                       /\ ~c.ran /\ c.samples = <<>>
                /\ (~missingTarget(l) /\ filterConflict(l)) =>
                       /\ c.err = Error(ConflictMsg, l)
                       /\ ~c.ran /\ c.samples = <<>>

\* A target that sets both lists and a target without file and server have
\* been called, for neither was the tool launched, and its run would have
\* given rows.
C29_Witness ==
    /\ Len(calls) = 2
    /\ \A k \in 1..2 : ~calls[k].ran /\ RunOf(calls[k]).out = TwoFeatures
    /\ calls[1].err.msg = ConflictMsg
    /\ missingTarget(LicenseOf(calls[2]))

\* C25: no probe task panics: every sample it makes has as many label
\* values as its descriptor has labels; and a task whose Update has
\* returned holds nil or the error of one of its target calls.
C25_NoProbeEndsTheProcess ==
    /\ \A name \in Registered : tpc[name] # "panic"
    /\ \A k \in 1..Len(sink) : MustNewConstMetric(sink[k]) = "metric"
    /\ \A name \in Registered :
           Returned(name) =>
               \/ updateErr[name] = Nil
               \/ \E k \in 1..Len(calls) :
                      calls[k].probe = name /\ calls[k].err = updateErr[name]

\* After a scrape that was answered, a later scrape is answered too: both
\* probes ran, the feature-expiration probe sent a sample for one target
\* and failed on another.
C25_Witness ==
    /\ previous.any
    /\ cpc = "returned" /\ status = 200
    /\ Collectors = Registered
    /\ updateErr[FeatureExpProbe] # Nil
    /\ featureSamples(sink) # {}
    /\ Len(UpSamples) = 2

====
